---- MODULE Spec2Model ----
(***************************************************************************)
(* Model of schedule() of pinewood-derby-scheduler (src/src/index.ts).     *)
(*                                                                         *)
(* One call of schedule() is a sequence of steps: Resolve (priority list   *)
(* and weights), Validate, SizeGrid, PlaceBye (one iteration of the BYE    *)
(* loop), BuildAvailable, StartHeat, FillLane (one iteration of the lane   *)
(* loop), EndHeat and Return.                                              *)
(*                                                                         *)
(* Conventions:                                                            *)
(*  - a racer object is represented by its id; makeRacers of the tests     *)
(*    gives the racer at index i the id i + 1; null is Null (id 0);        *)
(*  - racers, heatsRemaining, lanesUsed, result and availableLanesPerHeat  *)
(*    are 0-based functions, as the arrays of the code are; arrays that    *)
(*    the code only iterates or appends to (priorityList, laneOrder,       *)
(*    racersInThisHeat, candidates) are TLA+ sequences;                    *)
(*  - a JavaScript number given as numLanes / heatsPerRacer is a rational  *)
(*    [n, d] so that non-integers can be passed;                           *)
(*  - the keys `${heat},${lane}` of byeSlots and pairKey's `${a},${b}` are *)
(*    injective on non-negative integers and are modelled as pairs;        *)
(*  - score is kept in tenths (10 * weighted sum + heatsRemaining): the    *)
(*    order and equality of the code's doubles are those of the tenths as  *)
(*    long as heatsRemaining stays below 10.                               *)
(*                                                                         *)
(* Two more programs of the repository are modelled on the same state:     *)
(*  - the earlier round-major schedule() of src/unnamed/part_000           *)
(*    (SpecRoundMajor), which shares validation and BYE loop with the      *)
(*    current one;                                                         *)
(*  - handleSubmit of the site, src/site/src/main.ts (SpecSite), which     *)
(*    runs the steps of schedule() once for every subgroup of the form.    *)
(***************************************************************************)
EXTENDS Integers, Sequences, FiniteSets, TLC

VARIABLES
    racersIsArray,        \* Array.isArray(racers)
    racers,               \* the caller's list, 0-based
    options,              \* [numLanes, heatsPerRacer, prioritize]
    pc,                   \* position of the call
    error,                \* message of the Error thrown, "" if none
    priorityList,
    weights,
    totalSlots,
    numHeats,
    result,
    necessaryByes,
    byeSlots,
    leftByes,
    rightByes,
    heatIdx,
    byesPlaced,
    lastEdge,             \* chooseEdge of the last iteration of the BYE loop
    lastAssigned,         \* assigned at the end of the last iteration
    heatsRemaining,
    lanesUsed,
    racedTogether,
    previousHeatRacers,
    availableLanesPerHeat,
    heat,
    racersInThisHeat,
    laneOrder,
    lanePos,              \* position of the for-of over laneOrder
    unfilled,             \* the 'candidates.length === 0' break was taken
    returned,             \* the value returned to the caller
    remembered,           \* an earlier call's input and grid (observer)
    heatSlots,            \* round-major implementation: non-BYE lanes per heat
    heatAssignments,      \* round-major implementation: {racer, round} per heat
    slotIdx,              \* round-major implementation: counter of phase 1
    formData,             \* site: the fields of the submitted form
    groups,               \* site: Map subgroup -> racers, in insertion order
    groupPos,             \* site: position of the for-of over groups
    schedules,            \* site: the GroupedSchedule[] being built
    output,               \* site: content of the element 'schedule-output'
    sitePc                \* site: position of handleSubmit

inputVars == <<racersIsArray, racers, options>>
optionVars == <<priorityList, weights>>
gridVars == <<totalSlots, numHeats, result, necessaryByes>>
byeVars == <<byeSlots, leftByes, rightByes, heatIdx, byesPlaced, lastEdge, lastAssigned>>
racerVars == <<heatsRemaining, lanesUsed, racedTogether, previousHeatRacers>>
heatVars == <<availableLanesPerHeat, heat, racersInThisHeat, laneOrder, lanePos, unfilled>>
roundVars == <<heatSlots, heatAssignments, slotIdx>>
siteVars == <<formData, groups, groupPos, schedules, output, sitePc>>
vars == <<inputVars, optionVars, gridVars, byeVars, racerVars, heatVars,
          pc, error, returned, remembered, roundVars, siteVars>>

----------------------------------------------------------------------------
(* Bounds of the model *)

MaxRacers == 5
MaxLanes == 4
MaxHeats == 4

\* bounds of the inputs of a sequence of calls
CallMaxRacers == 2
CallMaxLanes == 2
CallMaxHeats == 2

\* bounds of the inputs of a call repeated with another priority setting
VariantMaxRacers == 4
VariantMaxLanes == 2
VariantMaxHeats == 2

\* bounds of the inputs whose priority list names a criterion more than once
RepeatMaxLen == 4
RepeatMaxRacers == 3
RepeatMaxLanes == 2
RepeatMaxHeats == 2

----------------------------------------------------------------------------
(* Values *)

Null == 0

Criteria == {"lanes", "opponents", "turnover"}

Num(n, d) == [n |-> n, d |-> d]

IsInteger(x) == x.n % x.d = 0

LessThanOne(x) == x.n < x.d

ToInt(x) == x.n \div x.d

makeRacers(count) == [i \in 0 .. count - 1 |-> i + 1]

Omitted == [kind |-> "omitted", tag |-> "", list |-> <<>>]

Tag(t) == [kind |-> "tag", tag |-> t, list |-> <<>>]

List(l) == [kind |-> "list", tag |-> "", list |-> l]

Range(s) == {s[i] : i \in DOMAIN s}

Max(a, b) == IF a >= b THEN a ELSE b

CeilDiv(a, b) == (a + b - 1) \div b

\* a criterion occurs more than once in the list
Repeats(l) == \E i, j \in DOMAIN l : i /= j /\ l[i] = l[j]

----------------------------------------------------------------------------
(* Option Resolver: lines 63-84 *)

\* the default as the README states it
DefaultPrioritizeReadme == <<"lanes", "opponents", "turnover">>

DefaultPrioritize == <<"lanes", "turnover", "opponents">>

prioritize == IF options.prioritize.kind = "omitted"
              THEN List(DefaultPrioritize)
              ELSE options.prioritize

PriorityListOf(p) ==
    IF p.kind = "list" THEN p.list
    ELSE IF p.tag = "lanes" THEN <<"lanes", "turnover", "opponents">>
    ELSE <<"opponents", "turnover", "lanes">>

\* the third weight equal to the second
weightValuesFlat == <<1000, 100, 100>>

\* the largest weight for the last position
weightValuesReversed == <<10, 100, 1000>>

weightValues == <<1000, 100, 10>>

WeightValueAt(i) == IF i \in DOMAIN weightValues THEN weightValues[i] ELSE 1

\* the weight of the first occurrence of a criterion kept
RECURSIVE AssignWeightsKeepingFirst(_, _, _)
AssignWeightsKeepingFirst(w, list, i) ==
    IF i > Len(list) THEN w
    ELSE IF \E j \in 1 .. i - 1 : list[j] = list[i]
         THEN AssignWeightsKeepingFirst(w, list, i + 1)
    ELSE AssignWeightsKeepingFirst([w EXCEPT ![list[i]] = WeightValueAt(i)], list, i + 1)

RECURSIVE AssignWeights(_, _, _)
AssignWeights(w, list, i) ==
    IF i > Len(list) THEN w
    ELSE AssignWeights([w EXCEPT ![list[i]] = WeightValueAt(i)], list, i + 1)

WeightsOf(list) ==
    LET init == [c \in Criteria |-> 1]
        assigned == AssignWeights(init, list, 1)
    IN [c \in Criteria |-> IF c \in Range(list) THEN assigned[c] ELSE 1]

numLanes == ToInt(options.numLanes)

heatsPerRacer == ToInt(options.heatsPerRacer)

racerCount == Cardinality(DOMAIN racers)

----------------------------------------------------------------------------
(* Inputs of a call *)

DistinctLists ==
    {l \in UNION {[1 .. k -> Criteria] : k \in 0 .. 3} :
        \A i, j \in DOMAIN l : i /= j => l[i] /= l[j]}

Priorities ==
    {Omitted} \cup {Tag(c) : c \in Criteria} \cup {List(l) : l \in DistinctLists}

Input(isArray, n, lanes, heats, p) ==
    [isArray |-> isArray, n |-> n, numLanes |-> lanes, heatsPerRacer |-> heats,
     prioritize |-> p]

ValidInputs ==
    {Input(TRUE, n, Num(l, 1), Num(h, 1), p) :
        n \in 1 .. MaxRacers, l \in 1 .. MaxLanes, h \in 1 .. MaxHeats,
        p \in Priorities}

\* numbers that are not positive integers
BadNumbers == {Num(-1, 1), Num(0, 1), Num(1, 2), Num(5, 2)}

InvalidInputs ==
    {in \in {Input(a, n, l, h, p) :
                a \in BOOLEAN, n \in {0, 2},
                l \in BadNumbers \cup {Num(2, 1)},
                h \in BadNumbers \cup {Num(2, 1)},
                p \in {Omitted, List(<<"turnover">>)}} :
        ~in.isArray \/ in.n = 0
        \/ in.numLanes \in BadNumbers \/ in.heatsPerRacer \in BadNumbers}

\* explicit lists in which a criterion occurs twice or more; every list of
\* more than three entries is one
RepeatedLists ==
    {l \in UNION {[1 .. k -> Criteria] : k \in 2 .. RepeatMaxLen} : Repeats(l)}

RepeatedInputs ==
    {Input(TRUE, n, Num(l, 1), Num(h, 1), List(p)) :
        n \in 1 .. RepeatMaxRacers, l \in 1 .. RepeatMaxLanes,
        h \in 1 .. RepeatMaxHeats, p \in RepeatedLists}

\* 8 racers on 7 lanes with 8 heats each: the smallest input on which the
\* greedy fill runs out of candidates; 1 racer on 5 lanes: a heat with two
\* BYEs on inner lanes; 12 heats per racer with all weights 1: remaining heats
\* of 10 and more, where 0.1 * remaining reaches the smallest weighted score
ScenarioInputs ==
    {Input(TRUE, 8, Num(7, 1), Num(8, 1), Tag("opponents")),
     Input(TRUE, 1, Num(5, 1), Num(1, 1), Omitted),
     Input(TRUE, 4, Num(3, 1), Num(12, 1), List(<<>>))}

Inputs == ValidInputs \cup InvalidInputs \cup ScenarioInputs \cup RepeatedInputs

\* the arguments of the call in progress, as an input record
CurrentInput ==
    Input(racersIsArray, racerCount, options.numLanes, options.heatsPerRacer,
          options.prioritize)

NoGrid == <<>>

\* others: a call with another input was made after the remembered one
NotRemembered == [set |-> FALSE, input |-> Input(TRUE, 0, Num(0, 1), Num(0, 1), Omitted),
                  grid |-> NoGrid, others |-> FALSE]

\* the locals of a call before their declarations are reached
Locals ==
    /\ error = ""
    /\ priorityList = <<>>
    /\ weights = [c \in Criteria |-> 0]
    /\ totalSlots = 0
    /\ numHeats = 0
    /\ result = NoGrid
    /\ necessaryByes = 0
    /\ byeSlots = {}
    /\ leftByes = 0
    /\ rightByes = 0
    /\ heatIdx = 0
    /\ byesPlaced = 0
    /\ lastEdge = -1
    /\ lastAssigned = TRUE
    /\ heatsRemaining = <<>>
    /\ lanesUsed = <<>>
    /\ racedTogether = {}
    /\ previousHeatRacers = {}
    /\ availableLanesPerHeat = <<>>
    /\ heat = 0
    /\ racersInThisHeat = <<>>
    /\ laneOrder = <<>>
    /\ lanePos = 1
    /\ unfilled = FALSE
    /\ returned = NoGrid
    /\ heatSlots = <<>>
    /\ heatAssignments = <<>>
    /\ slotIdx = 0

\* the form of the site before it is submitted
NoForm == [inputCsv |-> <<>>, numLanes |-> "", heatsPerRacer |-> "", prioritize |-> <<>>]

\* innerHTML of 'schedule-output': an error message, or one table per schedule
EmptyOutput == [error |-> "", tables |-> <<>>]

\* the page of the site is not in use
NoPage ==
    /\ formData = NoForm
    /\ groups = <<>>
    /\ groupPos = 1
    /\ schedules = <<>>
    /\ output = EmptyOutput
    /\ sitePc = "idle"

\* when racers is not an array (racersIsArray is FALSE) its value is never read
Arguments(in) ==
    /\ racersIsArray = in.isArray
    /\ racers = makeRacers(in.n)
    /\ options = [numLanes |-> in.numLanes, heatsPerRacer |-> in.heatsPerRacer,
                  prioritize |-> in.prioritize]

Init ==
    /\ \E in \in Inputs : Arguments(in)
    /\ pc = "resolve"
    /\ remembered = NotRemembered
    /\ Locals
    /\ NoPage

----------------------------------------------------------------------------
(* schedule(), lines 62-98: options and validation *)

Resolve ==
    /\ pc = "resolve"
    /\ priorityList' = PriorityListOf(prioritize)
    /\ weights' = WeightsOf(PriorityListOf(prioritize))
    /\ pc' = "validate"
    /\ UNCHANGED <<inputVars, gridVars, byeVars, racerVars, heatVars,
                   error, returned, remembered>>
    /\ UNCHANGED <<roundVars, siteVars>>

Throw(msg) ==
    /\ error' = msg
    /\ pc' = "thrown"
    /\ UNCHANGED <<inputVars, optionVars, gridVars, byeVars, racerVars, heatVars,
                   returned, remembered>>

\* the numLanes check made before the checks of racers
ValidateLanesFirst ==
    /\ pc = "validate"
    /\ \/ /\ ~IsInteger(options.numLanes) \/ LessThanOne(options.numLanes)
          /\ Throw("numLanes must be a positive integer")
       \/ /\ ~(~IsInteger(options.numLanes) \/ LessThanOne(options.numLanes))
          /\ ~racersIsArray
          /\ Throw("racers must be an array")
       \/ /\ ~(~IsInteger(options.numLanes) \/ LessThanOne(options.numLanes))
          /\ racersIsArray
          /\ racerCount = 0
          /\ Throw("racers array cannot be empty")
       \/ /\ ~(~IsInteger(options.numLanes) \/ LessThanOne(options.numLanes))
          /\ racersIsArray
          /\ racerCount /= 0
          /\ ~IsInteger(options.heatsPerRacer) \/ LessThanOne(options.heatsPerRacer)
          /\ Throw("heatsPerRacer must be a positive integer")
       \/ /\ racersIsArray
          /\ racerCount /= 0
          /\ ~(~IsInteger(options.numLanes) \/ LessThanOne(options.numLanes))
          /\ ~(~IsInteger(options.heatsPerRacer) \/ LessThanOne(options.heatsPerRacer))
          /\ pc' = "size"
          /\ UNCHANGED <<inputVars, optionVars, gridVars, byeVars, racerVars,
                         heatVars, error, returned, remembered>>
    /\ UNCHANGED <<roundVars, siteVars>>

Validate ==
    /\ pc = "validate"
    /\ \/ /\ ~racersIsArray
          /\ Throw("racers must be an array")
       \/ /\ racersIsArray
          /\ racerCount = 0
          /\ Throw("racers array cannot be empty")
       \/ /\ racersIsArray
          /\ racerCount /= 0
          /\ ~IsInteger(options.numLanes) \/ LessThanOne(options.numLanes)
          /\ Throw("numLanes must be a positive integer")
       \/ /\ racersIsArray
          /\ racerCount /= 0
          /\ ~(~IsInteger(options.numLanes) \/ LessThanOne(options.numLanes))
          /\ ~IsInteger(options.heatsPerRacer) \/ LessThanOne(options.heatsPerRacer)
          /\ Throw("heatsPerRacer must be a positive integer")
       \/ /\ racersIsArray
          /\ racerCount /= 0
          /\ ~(~IsInteger(options.numLanes) \/ LessThanOne(options.numLanes))
          /\ ~(~IsInteger(options.heatsPerRacer) \/ LessThanOne(options.heatsPerRacer))
          /\ pc' = "size"
          /\ UNCHANGED <<inputVars, optionVars, gridVars, byeVars, racerVars,
                         heatVars, error, returned, remembered>>
    /\ UNCHANGED <<roundVars, siteVars>>

----------------------------------------------------------------------------
(* Grid Sizer, lines 100-114, and the state of the BYE loop, lines 133-139 *)

\* one heat per appearance of a racer, whatever the number of racers
NumHeatsPerRacerOnly(n, lanes, heats) == heats

\* sizing by capacity alone, as the round-major implementation does
NumHeatsByCapacity(n, lanes, heats) == CeilDiv(n * heats, lanes)

\* one heat more than needed
NumHeatsOneMore(n, lanes, heats) == Max(heats, CeilDiv(n * heats, lanes)) + 1

NumHeatsFor(n, lanes, heats) == Max(heats, CeilDiv(n * heats, lanes))

EmptyGrid(nHeats, lanes) == [h \in 0 .. nHeats - 1 |-> [l \in 0 .. lanes - 1 |-> Null]]

laneLeft == 0

laneRight == numLanes - 1

SizeGrid ==
    /\ pc = "size"
    /\ totalSlots' = racerCount * heatsPerRacer
    /\ numHeats' = NumHeatsFor(racerCount, numLanes, heatsPerRacer)
    /\ result' = EmptyGrid(numHeats', numLanes)
    /\ necessaryByes' = numHeats' * numLanes - totalSlots'
    /\ byeSlots' = {}
    /\ leftByes' = 0
    /\ rightByes' = 0
    /\ heatIdx' = numHeats' - 1
    /\ byesPlaced' = 0
    /\ pc' = "byes"
    /\ UNCHANGED <<inputVars, optionVars, lastEdge, lastAssigned, racerVars, heatVars,
                   error, returned, remembered>>
    /\ UNCHANGED <<roundVars, siteVars>>

----------------------------------------------------------------------------
(* Bye Placer, lines 116-185 *)

RECURSIVE LanePriorityFrom(_, _)
LanePriorityFrom(left, right) ==
    IF left > right THEN <<>>
    ELSE IF left = right THEN <<left>> \o LanePriorityFrom(left + 1, right - 1)
    ELSE <<left, right>> \o LanePriorityFrom(left + 1, right - 1)

\* the lanes in ascending order
getLanePriorityAscending(n) == [i \in 1 .. n |-> i - 1]

getLanePriority(n) == LanePriorityFrom(0, n - 1)

\* lane 0's side on every tie
ChooseEdgeLeftOnTie ==
    IF leftByes < rightByes THEN laneLeft
    ELSE IF rightByes < leftByes THEN laneRight
    ELSE laneLeft

\* the edge that has more BYEs so far
ChooseEdgeFuller ==
    IF leftByes < rightByes THEN laneRight
    ELSE IF rightByes < leftByes THEN laneLeft
    ELSE IF byesPlaced % 2 = 0 THEN laneLeft ELSE laneRight

\* the alternation started on the right edge
ChooseEdgeRightFirst ==
    IF leftByes < rightByes THEN laneLeft
    ELSE IF rightByes < leftByes THEN laneRight
    ELSE IF byesPlaced % 2 = 0 THEN laneRight ELSE laneLeft

ChooseEdge ==
    IF leftByes < rightByes THEN laneLeft
    ELSE IF rightByes < leftByes THEN laneRight
    ELSE IF byesPlaced % 2 = 0 THEN laneLeft ELSE laneRight

\* the 'continue' of the first scan: lanes other than the chosen edge
SkippedOnEdge(chooseEdge, idx) ==
    \/ chooseEdge = laneLeft /\ idx /= laneLeft
    \/ chooseEdge = laneRight /\ idx /= laneRight

\* first lane of order, from position i on, that is not skipped and not yet a
\* BYE of heat h; -1 if there is none
RECURSIVE FirstFreeLane(_, _, _, _, _)
FirstFreeLane(order, i, h, chooseEdge, edgeOnly) ==
    IF i > Len(order) THEN -1
    ELSE IF edgeOnly /\ SkippedOnEdge(chooseEdge, order[i])
         THEN FirstFreeLane(order, i + 1, h, chooseEdge, edgeOnly)
    ELSE IF <<h, order[i]>> \notin byeSlots THEN order[i]
    ELSE FirstFreeLane(order, i + 1, h, chooseEdge, edgeOnly)

\* the edge scan alone, without the full scan after it
ByeLaneEdgeOnly(chooseEdge) ==
    FirstFreeLane(getLanePriority(numLanes), 1, heatIdx, chooseEdge, TRUE)

\* the lane the iteration assigns: the edge scan, then the full scan
ByeLane(chooseEdge) ==
    LET order == getLanePriority(numLanes)
        onEdge == FirstFreeLane(order, 1, heatIdx, chooseEdge, TRUE)
    IN IF onEdge /= -1 THEN onEdge
       ELSE FirstFreeLane(order, 1, heatIdx, chooseEdge, FALSE)

\* the move to the next heat, wrapping to the first one
NextHeatIdxForward == IF heatIdx + 1 > numHeats - 1 THEN 0 ELSE heatIdx + 1

\* every BYE placed in the heat the loop starts on
NextHeatIdxStay == heatIdx

\* the move to the previous heat without the wrap to the last one
NextHeatIdxNoWrap == IF heatIdx - 1 < 0 THEN 0 ELSE heatIdx - 1

NextHeatIdx == IF heatIdx - 1 < 0 THEN numHeats - 1 ELSE heatIdx - 1

PlaceBye ==
    /\ pc = "byes"
    /\ byesPlaced < necessaryByes
    /\ LET chooseEdge == ChooseEdge
           idx == ByeLane(chooseEdge)
       IN /\ lastEdge' = chooseEdge
          /\ IF idx /= -1
             THEN /\ byeSlots' = byeSlots \cup {<<heatIdx, idx>>}
                  /\ leftByes' = IF idx = laneLeft THEN leftByes + 1 ELSE leftByes
                  /\ rightByes' = IF idx = laneRight THEN rightByes + 1 ELSE rightByes
                  /\ byesPlaced' = byesPlaced + 1
                  /\ lastAssigned' = TRUE
             ELSE /\ lastAssigned' = FALSE
                  /\ UNCHANGED <<byeSlots, leftByes, rightByes, byesPlaced>>
    /\ heatIdx' = NextHeatIdx
    /\ UNCHANGED <<inputVars, optionVars, gridVars, racerVars, heatVars,
                   pc, error, returned, remembered>>
    /\ UNCHANGED <<roundVars, siteVars>>

----------------------------------------------------------------------------
(* Greedy Assigner, lines 187-298 *)

\* no slot counts as a BYE
isByeSlotNever(h, lane) == FALSE

isByeSlot(h, lane) == <<h, lane>> \in byeSlots

pairKey(a, b) == IF a < b THEN <<a, b>> ELSE <<b, a>>

\* the non-BYE lanes of heat h from lane on, ascending
RECURSIVE LanesFrom(_, _)
LanesFrom(h, lane) ==
    IF lane >= numLanes THEN <<>>
    ELSE IF ~isByeSlot(h, lane) THEN <<lane>> \o LanesFrom(h, lane + 1)
    ELSE LanesFrom(h, lane + 1)

AvailableLanes(h) == LanesFrom(h, 0)

\* previousHeatRacers kept from the call before
BuildAvailableKeepingPrevious ==
    /\ pc = "byes"
    /\ ~(byesPlaced < necessaryByes)
    /\ heatsRemaining' = [r \in DOMAIN racers |-> heatsPerRacer]
    /\ lanesUsed' = [r \in DOMAIN racers |-> {}]
    /\ racedTogether' = {}
    /\ availableLanesPerHeat' = [h \in 0 .. numHeats - 1 |-> LanesFrom(h, 0)]
    /\ heat' = 0
    /\ pc' = "heat"
    /\ unfilled' = FALSE
    /\ UNCHANGED <<inputVars, optionVars, gridVars, byeVars, previousHeatRacers,
                   racersInThisHeat, laneOrder, lanePos,
                   error, returned, remembered>>
    /\ UNCHANGED <<roundVars, siteVars>>

BuildAvailable ==
    /\ pc = "byes"
    /\ ~(byesPlaced < necessaryByes)
    /\ heatsRemaining' = [r \in DOMAIN racers |-> heatsPerRacer]
    /\ lanesUsed' = [r \in DOMAIN racers |-> {}]
    /\ racedTogether' = {}
    /\ previousHeatRacers' = {}
    /\ availableLanesPerHeat' = [h \in 0 .. numHeats - 1 |-> AvailableLanes(h)]
    /\ heat' = 0
    /\ pc' = "heat"
    /\ unfilled' = FALSE
    /\ UNCHANGED <<inputVars, optionVars, gridVars, byeVars,
                   racersInThisHeat, laneOrder, lanePos,
                   error, returned, remembered>>
    /\ UNCHANGED <<roundVars, siteVars>>

\* laneOrder.push(laneOrder.shift()) done k times
RECURSIVE Rotate(_, _)
Rotate(order, k) ==
    IF k <= 0 \/ order = <<>> THEN order
    ELSE Rotate(Tail(order) \o <<Head(order)>>, k - 1)

\* no rotation
RotationNone(h, lanesInHeat) == 0

\* the rotation of the heat after
RotationOfNext(h, lanesInHeat) ==
    IF Len(lanesInHeat) = 0 THEN 0 ELSE (h + 1) % Len(lanesInHeat)

\* heat % lanesInHeat.length is NaN for an empty heat and the loop does not run
RotationOf(h, lanesInHeat) ==
    IF Len(lanesInHeat) = 0 THEN 0 ELSE h % Len(lanesInHeat)

StartHeat ==
    /\ pc = "heat"
    /\ heat < numHeats
    /\ racersInThisHeat' = <<>>
    /\ laneOrder' = Rotate(availableLanesPerHeat[heat],
                           RotationOf(heat, availableLanesPerHeat[heat]))
    /\ lanePos' = 1
    /\ pc' = "lane"
    /\ UNCHANGED <<inputVars, optionVars, gridVars, byeVars, racerVars,
                   availableLanesPerHeat, heat, unfilled,
                   error, returned, remembered>>
    /\ UNCHANGED <<roundVars, siteVars>>

\* candidates without the 'not already in this heat' test
RECURSIVE CandidatesIncludingPlaced(_)
CandidatesIncludingPlaced(r) ==
    IF r >= racerCount THEN <<>>
    ELSE IF heatsRemaining[r] > 0 THEN <<r>> \o CandidatesIncludingPlaced(r + 1)
    ELSE CandidatesIncludingPlaced(r + 1)

\* racers who still need heats and are not already in this heat, ascending
RECURSIVE CandidatesFrom(_)
CandidatesFrom(r) ==
    IF r >= racerCount THEN <<>>
    ELSE IF heatsRemaining[r] > 0 /\ r \notin Range(racersInThisHeat)
         THEN <<r>> \o CandidatesFrom(r + 1)
    ELSE CandidatesFrom(r + 1)

Candidates == CandidatesFrom(0)

\* a lane the candidate has used preferred
LaneScoreRepeat(candidate, lane) == IF lane \in lanesUsed[candidate] THEN 10 ELSE 0

LaneScore(candidate, lane) == IF lane \in lanesUsed[candidate] THEN 0 ELSE 10

RepeatOpponents(candidate) ==
    Cardinality({i \in DOMAIN racersInThisHeat :
                    pairKey(candidate, racersInThisHeat[i]) \in racedTogether})

NewOpponents(candidate) ==
    Cardinality({i \in DOMAIN racersInThisHeat :
                    pairKey(candidate, racersInThisHeat[i]) \notin racedTogether})

OpponentScore(candidate) == NewOpponents(candidate) * 2 - RepeatOpponents(candidate) * 5

\* a racer of the previous heat preferred
TurnoverScoreFlipped(candidate) == IF candidate \in previousHeatRacers THEN 1 ELSE -1

TurnoverScore(candidate) == IF candidate \in previousHeatRacers THEN -1 ELSE 1

\* the weighted turnover score subtracted
WeightedSumLessTurnover(candidate, lane) ==
    LaneScore(candidate, lane) * weights["lanes"]
    + OpponentScore(candidate) * weights["opponents"]
    - TurnoverScore(candidate) * weights["turnover"]

WeightedSum(candidate, lane) ==
    LaneScore(candidate, lane) * weights["lanes"]
    + OpponentScore(candidate) * weights["opponents"]
    + TurnoverScore(candidate) * weights["turnover"]

\* in tenths, with 10 and not 0.1 for each remaining heat
ScoreNudgeTen(candidate, lane) ==
    10 * WeightedSum(candidate, lane) + 100 * heatsRemaining[candidate]

\* the weighted sum alone, without heatsRemaining * 0.1
ScoreWithoutNudge(candidate, lane) == 10 * WeightedSum(candidate, lane)

\* score in tenths: weighted sum + heatsRemaining * 0.1
Score(candidate, lane) == 10 * WeightedSum(candidate, lane) + heatsRemaining[candidate]

\* on an equal score the later candidate taken
BetterOnTieLater(score, candidate, best) ==
    \/ best.none
    \/ score > best.score
    \/ score = best.score /\ candidate > best.candidate

\* the update of bestScore / bestCandidate; bestScore starts at -Infinity (none)
Better(score, candidate, best) ==
    \/ best.none
    \/ score > best.score
    \/ score = best.score /\ candidate < best.candidate

RECURSIVE BestFrom(_, _, _, _)
BestFrom(candidates, i, lane, best) ==
    IF i > Len(candidates) THEN best.candidate
    ELSE LET candidate == candidates[i]
             score == Score(candidate, lane)
         IN IF Better(score, candidate, best)
            THEN BestFrom(candidates, i + 1, lane,
                          [none |-> FALSE, score |-> score, candidate |-> candidate])
            ELSE BestFrom(candidates, i + 1, lane, best)

BestCandidate(candidates, lane) ==
    BestFrom(candidates, 1, lane, [none |-> TRUE, score |-> 0, candidate |-> candidates[1]])

\* the index of the best candidate written to the slot, not racers[index]
FillLaneWritingIndex ==
    /\ pc = "lane"
    /\ lanePos <= Len(laneOrder)
    /\ LET lane == laneOrder[lanePos]
           candidates == Candidates
       IN IF candidates = <<>>
          THEN /\ unfilled' = TRUE
               /\ lanePos' = Len(laneOrder) + 1
               /\ UNCHANGED <<result, racersInThisHeat, heatsRemaining, lanesUsed>>
          ELSE LET bestCandidate == BestCandidate(candidates, lane)
               IN /\ result' = [result EXCEPT ![heat][lane] = bestCandidate]
                  /\ racersInThisHeat' = Append(racersInThisHeat, bestCandidate)
                  /\ heatsRemaining' =
                         [heatsRemaining EXCEPT ![bestCandidate] = @ - 1]
                  /\ lanesUsed' = [lanesUsed EXCEPT ![bestCandidate] = @ \cup {lane}]
                  /\ lanePos' = lanePos + 1
                  /\ UNCHANGED unfilled
    /\ UNCHANGED <<inputVars, optionVars, totalSlots, numHeats, necessaryByes, byeVars,
                   racedTogether, previousHeatRacers,
                   availableLanesPerHeat, heat, laneOrder,
                   pc, error, returned, remembered>>
    /\ UNCHANGED <<roundVars, siteVars>>

\* lanesUsed replaced by the lane just filled, not extended by it
FillLaneLastLaneOnly ==
    /\ pc = "lane"
    /\ lanePos <= Len(laneOrder)
    /\ LET lane == laneOrder[lanePos]
           candidates == Candidates
       IN IF candidates = <<>>
          THEN /\ unfilled' = TRUE
               /\ lanePos' = Len(laneOrder) + 1
               /\ UNCHANGED <<result, racersInThisHeat, heatsRemaining, lanesUsed>>
          ELSE LET bestCandidate == BestCandidate(candidates, lane)
               IN /\ result' = [result EXCEPT ![heat][lane] = racers[bestCandidate]]
                  /\ racersInThisHeat' = Append(racersInThisHeat, bestCandidate)
                  /\ heatsRemaining' =
                         [heatsRemaining EXCEPT ![bestCandidate] = @ - 1]
                  /\ lanesUsed' = [lanesUsed EXCEPT ![bestCandidate] = {lane}]
                  /\ lanePos' = lanePos + 1
                  /\ UNCHANGED unfilled
    /\ UNCHANGED <<inputVars, optionVars, totalSlots, numHeats, necessaryByes, byeVars,
                   racedTogether, previousHeatRacers,
                   availableLanesPerHeat, heat, laneOrder,
                   pc, error, returned, remembered>>
    /\ UNCHANGED <<roundVars, siteVars>>

\* the racer written to the heat after the current one, wrapping around
FillLaneNextHeat ==
    /\ pc = "lane"
    /\ lanePos <= Len(laneOrder)
    /\ LET lane == laneOrder[lanePos]
           candidates == Candidates
       IN IF candidates = <<>>
          THEN /\ unfilled' = TRUE
               /\ lanePos' = Len(laneOrder) + 1
               /\ UNCHANGED <<result, racersInThisHeat, heatsRemaining, lanesUsed>>
          ELSE LET bestCandidate == BestCandidate(candidates, lane)
               IN /\ result' = [result EXCEPT ![(heat + 1) % numHeats][lane] =
                                                  racers[bestCandidate]]
                  /\ racersInThisHeat' = Append(racersInThisHeat, bestCandidate)
                  /\ heatsRemaining' =
                         [heatsRemaining EXCEPT ![bestCandidate] = @ - 1]
                  /\ lanesUsed' = [lanesUsed EXCEPT ![bestCandidate] = @ \cup {lane}]
                  /\ lanePos' = lanePos + 1
                  /\ UNCHANGED unfilled
    /\ UNCHANGED <<inputVars, optionVars, totalSlots, numHeats, necessaryByes, byeVars,
                   racedTogether, previousHeatRacers,
                   availableLanesPerHeat, heat, laneOrder,
                   pc, error, returned, remembered>>
    /\ UNCHANGED <<roundVars, siteVars>>

FillLane ==
    /\ pc = "lane"
    /\ lanePos <= Len(laneOrder)
    /\ LET lane == laneOrder[lanePos]
           candidates == Candidates
       IN IF candidates = <<>>
          THEN /\ unfilled' = TRUE
               /\ lanePos' = Len(laneOrder) + 1
               /\ UNCHANGED <<result, racersInThisHeat, heatsRemaining, lanesUsed>>
          ELSE LET bestCandidate == BestCandidate(candidates, lane)
               IN /\ result' = [result EXCEPT ![heat][lane] = racers[bestCandidate]]
                  /\ racersInThisHeat' = Append(racersInThisHeat, bestCandidate)
                  /\ heatsRemaining' =
                         [heatsRemaining EXCEPT ![bestCandidate] = @ - 1]
                  /\ lanesUsed' = [lanesUsed EXCEPT ![bestCandidate] = @ \cup {lane}]
                  /\ lanePos' = lanePos + 1
                  /\ UNCHANGED unfilled
    /\ UNCHANGED <<inputVars, optionVars, totalSlots, numHeats, necessaryByes, byeVars,
                   racedTogether, previousHeatRacers,
                   availableLanesPerHeat, heat, laneOrder,
                   pc, error, returned, remembered>>
    /\ UNCHANGED <<roundVars, siteVars>>

\* only the pairs of the first racer placed in the heat
PairingsOfFirst(inHeat) ==
    {pairKey(inHeat[1], inHeat[j]) : j \in {k \in DOMAIN inHeat : k > 1}}

PairingsOf(inHeat) ==
    {pairKey(inHeat[i], inHeat[j]) : i, j \in {k \in DOMAIN inHeat : TRUE}} \
        {pairKey(inHeat[i], inHeat[i]) : i \in DOMAIN inHeat}

\* the racers of the heat added to previousHeatRacers, not replacing it
EndHeatAccumulating ==
    /\ pc = "lane"
    /\ lanePos > Len(laneOrder)
    /\ racedTogether' = racedTogether \cup PairingsOf(racersInThisHeat)
    /\ previousHeatRacers' = previousHeatRacers \cup Range(racersInThisHeat)
    /\ heat' = heat + 1
    /\ pc' = "heat"
    /\ UNCHANGED <<inputVars, optionVars, gridVars, byeVars,
                   heatsRemaining, lanesUsed,
                   availableLanesPerHeat, racersInThisHeat, laneOrder, lanePos, unfilled,
                   error, returned, remembered>>
    /\ UNCHANGED <<roundVars, siteVars>>

EndHeat ==
    /\ pc = "lane"
    /\ lanePos > Len(laneOrder)
    /\ racedTogether' = racedTogether \cup PairingsOf(racersInThisHeat)
    /\ previousHeatRacers' = Range(racersInThisHeat)
    /\ heat' = heat + 1
    /\ pc' = "heat"
    /\ UNCHANGED <<inputVars, optionVars, gridVars, byeVars,
                   heatsRemaining, lanesUsed,
                   availableLanesPerHeat, racersInThisHeat, laneOrder, lanePos, unfilled,
                   error, returned, remembered>>
    /\ UNCHANGED <<roundVars, siteVars>>

Return ==
    /\ pc = "heat"
    /\ ~(heat < numHeats)
    /\ returned' = result
    /\ pc' = "done"
    /\ UNCHANGED <<inputVars, optionVars, gridVars, byeVars, racerVars, heatVars,
                   error, remembered>>
    /\ UNCHANGED <<roundVars, siteVars>>

----------------------------------------------------------------------------
(* One call of schedule() *)

Next ==
    \/ Resolve
    \/ Validate
    \/ SizeGrid
    \/ PlaceBye
    \/ BuildAvailable
    \/ StartHeat
    \/ FillLane
    \/ EndHeat
    \/ Return

Spec == Init /\ [][Next]_vars

\* the call runs to its end: a step that can be taken is taken
FairSpec == Spec /\ WF_vars(Next)

----------------------------------------------------------------------------
(* A sequence of calls: after a call has returned or thrown the caller makes
   another one. The locals of the finished call are left as they are; each
   declaration of the new call initialises its own. Observe keeps the input and
   the grid of one finished call to compare later calls with. *)

CallInputs ==
    {Input(TRUE, n, Num(l, 1), Num(h, 1), p) :
        n \in 1 .. CallMaxRacers, l \in 1 .. CallMaxLanes, h \in 1 .. CallMaxHeats,
        p \in {Omitted, Tag("opponents")}}
    \cup {Input(TRUE, 0, Num(1, 1), Num(1, 1), Omitted)}

Call ==
    /\ pc \in {"done", "thrown"}
    /\ \E in \in CallInputs :
          /\ racersIsArray' = in.isArray
          /\ racers' = makeRacers(in.n)
          /\ options' = [numLanes |-> in.numLanes, heatsPerRacer |-> in.heatsPerRacer,
                         prioritize |-> in.prioritize]
          /\ remembered' = IF remembered.set /\ in /= remembered.input
                           THEN [remembered EXCEPT !.others = TRUE]
                           ELSE remembered
    /\ error' = ""
    /\ returned' = NoGrid
    /\ pc' = "resolve"
    /\ UNCHANGED <<optionVars, gridVars, byeVars, racerVars, heatVars>>
    /\ UNCHANGED <<roundVars, siteVars>>

Observe ==
    /\ pc = "done"
    /\ ~remembered.set
    /\ remembered' = [set |-> TRUE, input |-> CurrentInput, grid |-> returned,
                      others |-> FALSE]
    /\ UNCHANGED <<inputVars, optionVars, gridVars, byeVars, racerVars, heatVars,
                   pc, error, returned>>
    /\ UNCHANGED <<roundVars, siteVars>>

InitCalls ==
    /\ \E in \in CallInputs : Arguments(in)
    /\ pc = "resolve"
    /\ remembered = NotRemembered
    /\ Locals
    /\ NoPage

NextCalls ==
    \/ Next
    \/ Call
    \/ Observe

SpecCalls == InitCalls /\ [][NextCalls]_vars

----------------------------------------------------------------------------
(* A call followed by one more call with the same racers, numLanes and
   heatsPerRacer and any priority setting: the first call's grid is observed
   and the second call's grid is compared with it. *)

VariantInputs ==
    {Input(TRUE, n, Num(l, 1), Num(h, 1), p) :
        n \in 1 .. VariantMaxRacers, l \in 1 .. VariantMaxLanes,
        h \in 1 .. VariantMaxHeats, p \in Priorities}

TurnoverFirst == List(<<"turnover", "lanes", "opponents">>)

LanesFirst == List(<<"lanes", "turnover", "opponents">>)

LanesOpponentsTurnover == List(<<"lanes", "opponents", "turnover">>)

\* the inputs on which the tests compare two priority settings, and the
\* smallest inputs on which each comparison comes out the other way
ComparisonInputs ==
    {Input(TRUE, 24, Num(4, 1), Num(4, 1), p) : p \in {TurnoverFirst, LanesOpponentsTurnover}}
    \cup {Input(TRUE, 32, Num(4, 1), Num(4, 1), p) : p \in {TurnoverFirst, LanesFirst}}
    \cup {Input(TRUE, 7, Num(4, 1), Num(5, 1), p) : p \in {TurnoverFirst, LanesFirst}}
    \cup {Input(TRUE, 24, Num(6, 1), Num(6, 1), p) : p \in {Tag("opponents"), Tag("lanes")}}
    \cup {Input(TRUE, 11, Num(4, 1), Num(4, 1), p) : p \in {Tag("opponents"), Tag("lanes")}}

CallAgain ==
    /\ pc = "done"
    /\ remembered.set
    /\ remembered.input = CurrentInput
    /\ \E p \in Priorities :
          /\ [CurrentInput EXCEPT !.prioritize = p] \in VariantInputs \cup ComparisonInputs
          /\ options' = [options EXCEPT !.prioritize = p]
    /\ error' = ""
    /\ returned' = NoGrid
    /\ pc' = "resolve"
    /\ UNCHANGED <<racersIsArray, racers, optionVars, gridVars, byeVars, racerVars,
                   heatVars, remembered>>
    /\ UNCHANGED <<roundVars, siteVars>>

InitVariants ==
    /\ \E in \in VariantInputs \cup ComparisonInputs : Arguments(in)
    /\ pc = "resolve"
    /\ remembered = NotRemembered
    /\ Locals
    /\ NoPage

NextVariants ==
    \/ Next
    \/ Observe
    \/ CallAgain

SpecVariants == InitVariants /\ [][NextVariants]_vars

----------------------------------------------------------------------------
(* The earlier round-major implementation, src/unnamed/part_000. It has no
   prioritize option; its validation (lines 42-53) and its BYE loop (lines
   84-137) are line for line those of the current implementation, modelled by
   Validate and PlaceBye. *)

RoundMajorInputs ==
    {Input(TRUE, n, Num(l, 1), Num(h, 1), Omitted) :
        n \in 1 .. MaxRacers, l \in 1 .. MaxLanes, h \in 1 .. MaxHeats}

SizeGridRoundMajor ==
    /\ pc = "size"
    /\ totalSlots' = racerCount * heatsPerRacer
    /\ numHeats' = CeilDiv(totalSlots', numLanes)
    /\ result' = EmptyGrid(numHeats', numLanes)
    /\ necessaryByes' = numHeats' * numLanes - totalSlots'
    /\ byeSlots' = {}
    /\ leftByes' = 0
    /\ rightByes' = 0
    /\ heatIdx' = numHeats' - 1
    /\ byesPlaced' = 0
    /\ pc' = "byes"
    /\ UNCHANGED <<inputVars, optionVars, lastEdge, lastAssigned, racerVars, heatVars,
                   error, returned, remembered, roundVars, siteVars>>

BuildHeatSlots ==
    /\ pc = "byes"
    /\ ~(byesPlaced < necessaryByes)
    /\ heatSlots' = [t \in 0 .. numHeats - 1 |-> AvailableLanes(t)]
    /\ heatAssignments' = [t \in 0 .. numHeats - 1 |-> <<>>]
    /\ slotIdx' = 0
    /\ pc' = "phase1"
    /\ UNCHANGED <<inputVars, optionVars, gridVars, byeVars, racerVars, heatVars,
                   error, returned, remembered, siteVars>>

\* the loop variables h and r of phase 1 at the iteration that reads slotIdx:
\* slotIdx grows by one in every iteration of the inner loop
RoundOf(idx) == idx \div racerCount

RacerOf(idx) == idx % racerCount

\* the first heat, from heat t on, whose cumulative slot count exceeds idx;
\* -1 when the scan ends without a break
RECURSIVE HeatOfSlot(_, _, _)
HeatOfSlot(idx, t, cumulative) ==
    IF t >= numHeats THEN -1
    ELSE IF idx < cumulative + Len(heatSlots[t]) THEN t
    ELSE HeatOfSlot(idx, t + 1, cumulative + Len(heatSlots[t]))

AssignSlot ==
    /\ pc = "phase1"
    /\ slotIdx < heatsPerRacer * racerCount
    /\ LET target == HeatOfSlot(slotIdx, 0, 0)
           entry == [racer |-> RacerOf(slotIdx), round |-> RoundOf(slotIdx)]
       IN heatAssignments' =
              IF target = -1 THEN heatAssignments
              ELSE [heatAssignments EXCEPT ![target] = Append(@, entry)]
    /\ slotIdx' = slotIdx + 1
    /\ UNCHANGED <<inputVars, optionVars, gridVars, byeVars, racerVars, heatVars,
                   heatSlots, pc, error, returned, remembered, siteVars>>

StartPhase2 ==
    /\ pc = "phase1"
    /\ ~(slotIdx < heatsPerRacer * racerCount)
    /\ heat' = 0
    /\ pc' = "phase2"
    /\ UNCHANGED <<inputVars, optionVars, gridVars, byeVars, racerVars,
                   availableLanesPerHeat, racersInThisHeat, laneOrder, lanePos, unfilled,
                   error, returned, remembered, roundVars, siteVars>>

TargetLane(a) == (a.racer + a.round) % numLanes

\* the comparator of the sort does not put a after b
NotAfter(a, b) ==
    \/ TargetLane(a) < TargetLane(b)
    \/ TargetLane(a) = TargetLane(b) /\ a.racer <= b.racer

\* a inserted behind the entries that are not after it
RECURSIVE InsertSorted(_, _)
InsertSorted(sorted, a) ==
    IF sorted = <<>> THEN <<a>>
    ELSE IF NotAfter(Head(sorted), a)
         THEN <<Head(sorted)>> \o InsertSorted(Tail(sorted), a)
    ELSE <<a>> \o sorted

\* assignments.sort(...): entries the comparator does not tell apart keep
\* their order
RECURSIVE SortAssignments(_)
SortAssignments(list) ==
    IF list = <<>> THEN <<>>
    ELSE InsertSorted(SortAssignments(SubSeq(list, 1, Len(list) - 1)), list[Len(list)])

\* the loop over the sorted assignments of a heat, from entry i on
RECURSIVE PlaceFrom(_, _, _, _)
PlaceFrom(assignments, i, availableLanes, row) ==
    IF i > Len(assignments) THEN row
    ELSE LET racer == assignments[i].racer
             targetLane == TargetLane(assignments[i])
         IN IF targetLane \in Range(availableLanes)
            THEN PlaceFrom(assignments, i + 1,
                           SelectSeq(availableLanes, LAMBDA l : l /= targetLane),
                           [row EXCEPT ![targetLane] = racers[racer]])
            ELSE IF availableLanes /= <<>>
            THEN PlaceFrom(assignments, i + 1, Tail(availableLanes),
                           [row EXCEPT ![Head(availableLanes)] = racers[racer]])
            ELSE PlaceFrom(assignments, i + 1, availableLanes, row)

AssignLanes ==
    /\ pc = "phase2"
    /\ heat < numHeats
    /\ LET assignments == SortAssignments(heatAssignments[heat])
       IN /\ heatAssignments' = [heatAssignments EXCEPT ![heat] = assignments]
          /\ result' = [result EXCEPT
                            ![heat] = PlaceFrom(assignments, 1, heatSlots[heat], @)]
    /\ heat' = heat + 1
    /\ UNCHANGED <<inputVars, optionVars, totalSlots, numHeats, necessaryByes, byeVars,
                   racerVars, availableLanesPerHeat, racersInThisHeat, laneOrder,
                   lanePos, unfilled, heatSlots, slotIdx,
                   pc, error, returned, remembered, siteVars>>

ReturnRoundMajor ==
    /\ pc = "phase2"
    /\ ~(heat < numHeats)
    /\ returned' = result
    /\ pc' = "done"
    /\ UNCHANGED <<inputVars, optionVars, gridVars, byeVars, racerVars, heatVars,
                   error, remembered, roundVars, siteVars>>

InitRoundMajor ==
    /\ \E in \in RoundMajorInputs : Arguments(in)
    /\ pc = "validate"
    /\ remembered = NotRemembered
    /\ Locals
    /\ NoPage

NextRoundMajor ==
    \/ Validate
    \/ SizeGridRoundMajor
    \/ PlaceBye
    \/ BuildHeatSlots
    \/ AssignSlot
    \/ StartPhase2
    \/ AssignLanes
    \/ ReturnRoundMajor

SpecRoundMajor == InitRoundMajor /\ [][NextRoundMajor]_vars

----------------------------------------------------------------------------
(* The site front end, src/site/src/main.ts: handleSubmit and the functions
   it calls. The text of the form field inputCsv is a sequence of lines, each
   a sequence of trimmed cells; the hidden field prioritize is the sequence of
   its comma-separated parts. A racer handed to schedule() is identified by
   its 1-based position in the sorted list of its subgroup, so the heats of a
   GroupedSchedule hold such positions. *)

SiteMaxRows == 3

\* Number.isInteger(NaN) is false: a non-integer stands for NaN, which the
\* validation of schedule() does not tell apart from one
NaN == Num(1, 2)

\* parseInt(s, 10) on the values of the form's fields
parseInt(s) ==
    CASE s = "0" -> Num(0, 1)
      [] s = "1" -> Num(1, 1)
      [] s = "2" -> Num(2, 1)
      [] OTHER -> NaN

CsvHeaders == {<<"Subgroup", "Car#">>, <<"Car#">>}

CsvLines == {<<"A", "1">>, <<"A", "2">>, <<"B", "1">>, <<"", "2">>}

CsvTexts ==
    {<<>>} \cup
    {<<h>> \o d : h \in CsvHeaders,
                  d \in UNION {[1 .. k -> CsvLines] : k \in 0 .. SiteMaxRows}}

Forms ==
    {[inputCsv |-> t, numLanes |-> l, heatsPerRacer |-> h,
      prioritize |-> <<"lanes", "opponents", "turnover">>] :
        t \in CsvTexts, l \in {"2", ""}, h \in {"1", "2", "0"}}

\* row[header] = values[idx] || ''
parseCsv(text) ==
    IF Len(text) < 2 THEN <<>>
    ELSE LET headers == text[1]
             IndexOf(header) ==
                 CHOOSE idx \in DOMAIN headers :
                     headers[idx] = header /\ \A k \in DOMAIN headers :
                                                  headers[k] = header => k <= idx
         IN [i \in 1 .. Len(text) - 1 |->
                [header \in Range(headers) |->
                    IF IndexOf(header) \in DOMAIN text[i + 1]
                    THEN text[i + 1][IndexOf(header)]
                    ELSE ""]]

\* row[name] || ''
Field(row, name) == IF name \in DOMAIN row THEN row[name] ELSE ""

\* the order of localeCompare with numeric: true on the car numbers
CarNumberValue(s) == CASE s = "1" -> 1 [] s = "2" -> 2 [] OTHER -> 0

\* racers.sort(...): a racer inserted behind those whose car number is not
\* greater
RECURSIVE InsertRacer(_, _)
InsertRacer(sorted, racer) ==
    IF sorted = <<>> THEN <<racer>>
    ELSE IF CarNumberValue(Head(sorted).carNumber) <= CarNumberValue(racer.carNumber)
         THEN <<Head(sorted)>> \o InsertRacer(Tail(sorted), racer)
    ELSE <<racer>> \o sorted

RECURSIVE SortRacers(_)
SortRacers(list) ==
    IF list = <<>> THEN <<>>
    ELSE InsertRacer(SortRacers(SubSeq(list, 1, Len(list) - 1)), list[Len(list)])

\* the Map built by the loop over the rows, from row i on, as the sequence of
\* its entries in insertion order
RECURSIVE GroupRowsFrom(_, _, _)
GroupRowsFrom(rows, i, map) ==
    IF i > Len(rows) THEN map
    ELSE LET subgroup == Field(rows[i], "Subgroup")
             carNumber == Field(rows[i], "Car#")
             racer == [carNumber |-> carNumber, subgroup |-> subgroup]
         IN IF subgroup = "" \/ carNumber = "" THEN GroupRowsFrom(rows, i + 1, map)
            ELSE IF \E k \in DOMAIN map : map[k].subgroup = subgroup
            THEN GroupRowsFrom(rows, i + 1,
                     [k \in DOMAIN map |->
                         IF map[k].subgroup = subgroup
                         THEN [map[k] EXCEPT !.racers = Append(@, racer)]
                         ELSE map[k]])
            ELSE GroupRowsFrom(rows, i + 1,
                     Append(map, [subgroup |-> subgroup, racers |-> <<racer>>]))

groupBySubgroup(rows) ==
    LET map == GroupRowsFrom(rows, 1, <<>>)
    IN [k \in DOMAIN map |-> [map[k] EXCEPT !.racers = SortRacers(@)]]

\* const options: ScheduleOptions = { numLanes, heatsPerRacer, prioritize }
OptionsOf(form) ==
    [numLanes |-> parseInt(form.numLanes),
     heatsPerRacer |-> parseInt(form.heatsPerRacer),
     prioritize |-> List(form.prioritize)]

FailedMessage == "Failed to generate schedules. Please check your input data."

showError(message) ==
    /\ output' = [error |-> message, tables |-> <<>>]
    /\ sitePc' = "shown"
    /\ UNCHANGED <<groups, groupPos, schedules>>

\* handleSubmit up to the call of generateSchedules
HandleSubmit ==
    /\ sitePc = "submit"
    /\ LET rows == parseCsv(formData.inputCsv)
       IN IF formData.inputCsv = <<>>
          THEN showError("Please paste CSV data containing Subgroup and Car# columns.")
          ELSE IF Len(rows) = 0
          THEN showError("No valid data found. Please check your CSV format.")
          ELSE IF ~("Subgroup" \in DOMAIN rows[1] /\ "Car#" \in DOMAIN rows[1])
          THEN showError("CSV must contain \"Subgroup\" and \"Car#\" columns.")
          ELSE IF Len(groupBySubgroup(rows)) = 0
          THEN showError("No valid racers found. Each row needs a Subgroup and Car# value.")
          ELSE /\ groups' = groupBySubgroup(rows)
               /\ schedules' = <<>>
               /\ groupPos' = 1
               /\ sitePc' = "generate"
               /\ UNCHANGED output
    /\ UNCHANGED <<inputVars, optionVars, gridVars, byeVars, racerVars, heatVars,
                   pc, error, returned, remembered, roundVars, formData>>

\* generateSchedules: the call schedule(racers, options) for the next subgroup
CallSchedule ==
    /\ sitePc = "generate"
    /\ groupPos <= Len(groups)
    /\ racersIsArray' = TRUE
    /\ racers' = makeRacers(Len(groups[groupPos].racers))
    /\ options' = OptionsOf(formData)
    /\ error' = ""
    /\ returned' = NoGrid
    /\ pc' = "resolve"
    /\ sitePc' = "call"
    /\ UNCHANGED <<optionVars, gridVars, byeVars, racerVars, heatVars,
                   remembered, roundVars, formData, groups, groupPos, schedules, output>>

\* the new schedule put in front of the earlier ones
PushScheduleFirst ==
    /\ sitePc = "call"
    /\ pc = "done"
    /\ schedules' = <<[subgroup |-> groups[groupPos].subgroup, heats |-> returned]>>
                        \o schedules
    /\ groupPos' = groupPos + 1
    /\ sitePc' = "generate"
    /\ UNCHANGED <<inputVars, optionVars, gridVars, byeVars, racerVars, heatVars,
                   pc, error, returned, remembered, roundVars, formData, groups, output>>

\* the call returned: schedules.push({ subgroup, heats })
PushSchedule ==
    /\ sitePc = "call"
    /\ pc = "done"
    /\ schedules' = Append(schedules,
                           [subgroup |-> groups[groupPos].subgroup, heats |-> returned])
    /\ groupPos' = groupPos + 1
    /\ sitePc' = "generate"
    /\ UNCHANGED <<inputVars, optionVars, gridVars, byeVars, racerVars, heatVars,
                   pc, error, returned, remembered, roundVars, formData, groups, output>>

\* the call threw: the catch block logs the error and the loop goes on
CatchError ==
    /\ sitePc = "call"
    /\ pc = "thrown"
    /\ groupPos' = groupPos + 1
    /\ sitePc' = "generate"
    /\ UNCHANGED <<inputVars, optionVars, gridVars, byeVars, racerVars, heatVars,
                   pc, error, returned, remembered, roundVars, formData, groups,
                   schedules, output>>

\* generateSchedules has returned: the rest of handleSubmit
ShowSchedules ==
    /\ sitePc = "generate"
    /\ ~(groupPos <= Len(groups))
    /\ IF Len(schedules) = 0
       THEN showError(FailedMessage)
       ELSE /\ output' = [error |-> "", tables |-> schedules]
            /\ sitePc' = "shown"
            /\ UNCHANGED <<groups, groupPos, schedules>>
    /\ UNCHANGED <<inputVars, optionVars, gridVars, byeVars, racerVars, heatVars,
                   pc, error, returned, remembered, roundVars, formData>>

InitSite ==
    /\ formData \in Forms
    /\ groups = <<>>
    /\ groupPos = 1
    /\ schedules = <<>>
    /\ output = EmptyOutput
    /\ sitePc = "submit"
    /\ Arguments(Input(TRUE, 0, Num(0, 1), Num(0, 1), Omitted))
    /\ pc = "idle"
    /\ remembered = NotRemembered
    /\ Locals

NextSite ==
    \/ HandleSubmit
    \/ CallSchedule
    \/ Next
    \/ PushSchedule
    \/ CatchError
    \/ ShowSchedules

SpecSite == InitSite /\ [][NextSite]_vars

----------------------------------------------------------------------------
(* Properties *)

Cells(g) == {c \in (DOMAIN g) \X (0 .. numLanes - 1) : c[2] \in DOMAIN g[c[1]]}

FilledCells(g) == {c \in Cells(g) : g[c[1]][c[2]] /= Null}

Appearances(g, racer) == Cardinality({c \in Cells(g) : g[c[1]][c[2]] = racer})

NullCount(g) == Cardinality(Cells(g) \ FilledCells(g))

LanesHolding(g, h, racer) == {l \in DOMAIN g[h] : g[h][l] = racer}

Returned == pc = "done"

\* C1: in the schedule returned for a valid input, whatever the priority
\* setting, each racer occupies exactly heatsPerRacer slots.
C1_ExactAppearanceCount ==
    Returned =>
        \A r \in DOMAIN racers : Appearances(returned, racers[r]) = heatsPerRacer

\* C2: in every heat of the grid, while it is filled and when it is returned,
\* no racer (by index in the input list) occupies more than one lane.
C2_NoDuplicateInHeat ==
    /\ \A h \in DOMAIN result : \A r \in DOMAIN racers :
           Cardinality(LanesHolding(result, h, racers[r])) <= 1
    /\ \A i, j \in DOMAIN racersInThisHeat :
           i /= j => racersInThisHeat[i] /= racersInThisHeat[j]
    /\ Returned =>
           \A h \in DOMAIN returned : \A r \in DOMAIN racers :
               Cardinality(LanesHolding(returned, h, racers[r])) <= 1

\* a heat being filled in which a racer with heats left is already placed and
\* other racers are still to come
C2_Witness ==
    /\ pc = "lane"
    /\ heat >= 1
    /\ Len(racersInThisHeat) >= 1
    /\ lanePos <= Len(laneOrder)
    /\ \E i \in DOMAIN racersInThisHeat : heatsRemaining[racersInThisHeat[i]] > 0
    /\ racerCount > numLanes

\* C3: for a valid input the 'no eligible candidate' break is never taken, and
\* the returned grid has numHeats * numLanes - racerCount * heatsPerRacer
\* empty slots.
C3_NoSlotUnfilled ==
    /\ ~unfilled
    /\ Returned =>
           NullCount(returned) = numHeats * numLanes - racerCount * heatsPerRacer

\* C4: once allocated the grid has max(heatsPerRacer, ceil(racerCount *
\* heatsPerRacer / numLanes)) heats of numLanes slots each, in every later
\* state and when returned.
IsHeatCount(k) ==
    /\ k >= heatsPerRacer
    /\ k * numLanes >= racerCount * heatsPerRacer
    /\ k = heatsPerRacer \/ (k - 1) * numLanes < racerCount * heatsPerRacer

HasDimensions(g) ==
    /\ \E k \in 1 .. racerCount * heatsPerRacer : IsHeatCount(k) /\ DOMAIN g = 0 .. k - 1
    /\ \A h \in DOMAIN g : DOMAIN g[h] = 0 .. numLanes - 1

C4_GridDimensions ==
    /\ pc \in {"byes", "heat", "lane", "done"} => HasDimensions(result)
    /\ Returned => HasDimensions(returned)

\* a returned grid of heatsPerRacer heats although the appearances would fit
\* in fewer
C4_Witness ==
    /\ Returned
    /\ racerCount * heatsPerRacer <= (heatsPerRacer - 1) * numLanes
    /\ Cardinality(DOMAIN returned) = heatsPerRacer

\* C5: the BYE set is complete before the first racer is placed, does not
\* change afterwards, and no racer is written into a BYE coordinate.
ByeSetApart ==
    /\ FilledCells(result) /= {} =>
           /\ pc \in {"lane", "heat", "done"}
           /\ Cardinality(byeSlots) = necessaryByes
    /\ \A c \in byeSlots : c \in Cells(result) /\ result[c[1]][c[2]] = Null

ByeSetFrozen == pc \in {"heat", "lane", "done"} => byeSlots' = byeSlots

C5_ByeSetFixedAndDisjoint == []ByeSetApart /\ [][ByeSetFrozen]_vars

\* racers placed in a heat that has a BYE
C5_Witness ==
    /\ pc = "lane"
    /\ \E c \in byeSlots : c[1] = heat
    /\ Len(racersInThisHeat) >= 2
    /\ racerCount > numLanes

\* C6: a call with the input of an earlier call returns the same grid as that
\* call did, whatever calls were made in between.
C6_Deterministic ==
    (Returned /\ remembered.set /\ remembered.input = CurrentInput)
        => returned = remembered.grid

\* the remembered input called again after a call with another input, with
\* more racers than lanes
C6_Witness ==
    /\ Returned
    /\ remembered.set
    /\ remembered.others
    /\ remembered.input = CurrentInput
    /\ racerCount > numLanes

\* C7: invalid input makes the call throw the message of the first failing
\* check, in the order racers not an array, racers empty, numLanes,
\* heatsPerRacer; nothing is returned and no grid, BYE or placement state
\* exists; valid input does not throw.
ExpectedError ==
    IF ~racersIsArray THEN "racers must be an array"
    ELSE IF racerCount = 0 THEN "racers array cannot be empty"
    ELSE IF ~(options.numLanes.n % options.numLanes.d = 0 /\ options.numLanes.n >= options.numLanes.d)
         THEN "numLanes must be a positive integer"
    ELSE IF ~(options.heatsPerRacer.n % options.heatsPerRacer.d = 0
              /\ options.heatsPerRacer.n >= options.heatsPerRacer.d)
         THEN "heatsPerRacer must be a positive integer"
    ELSE ""

C7_ValidationFailsFast ==
    /\ pc \notin {"resolve", "validate"} =>
           /\ error = ExpectedError
           /\ (pc = "thrown") = (ExpectedError /= "")
    /\ pc \in {"resolve", "validate", "thrown"} =>
           /\ result = NoGrid
           /\ returned = NoGrid
           /\ byeSlots = {}
           /\ heatsRemaining = <<>>
           /\ lanesUsed = <<>>
           /\ racedTogether = {}

\* a throw on an input with more than one invalid argument
C7_Witness ==
    /\ pc = "thrown"
    /\ racersIsArray
    /\ racerCount = 0
    /\ error = "racers array cannot be empty"
    /\ options.numLanes = Num(5, 2)
    /\ options.heatsPerRacer = Num(0, 1)

\* C8: for an explicit list of distinct criteria the criterion at position 0
\* has weight 1000, at position 1 weight 100, at position 2 weight 10, and an
\* unlisted one weight 1; weights are positive and strictly decrease along
\* the list.
ExplicitList == options.prioritize.kind = "list"

C8_WeightsByPosition ==
    (pc /= "resolve" /\ ExplicitList /\ ~Repeats(options.prioritize.list)) =>
        LET list == options.prioritize.list
        IN /\ \A c \in Criteria :
                  /\ weights[c] > 0
                  /\ (\A i \in DOMAIN list : list[i] /= c) => weights[c] = 1
           /\ \A i \in DOMAIN list :
                  weights[list[i]] = (CASE i = 1 -> 1000 [] i = 2 -> 100 [] i = 3 -> 10)
           /\ \A i, j \in DOMAIN list : i < j => weights[list[i]] > weights[list[j]]

\* weights resolved from a list of two criteria, and from one of three
C8_Witness ==
    /\ pc = "validate"
    /\ ExplicitList
    /\ Len(options.prioritize.list) >= 2

\* C9: a call without prioritize returns the same grid as the call with
\* prioritize: ['lanes', 'turnover', 'opponents'] on the same racers and
\* options.
DefaultPair == {Omitted, List(<<"lanes", "turnover", "opponents">>)}

C10_SingleTagFirst ==
    (pc /= "resolve" /\ options.prioritize.kind = "tag") =>
        /\ Len(priorityList) = 3
        /\ priorityList[1] = options.prioritize.tag
        /\ weights[options.prioritize.tag] = 1000
        /\ {weights[c] : c \in Criteria \ {options.prioritize.tag}} = {100, 10}

\* C11: on the same racers and options, prioritize: 'lanes' returns the same
\* grid as prioritize: ['lanes', 'opponents', 'turnover'], and prioritize:
\* 'opponents' returns the same grid as prioritize: ['opponents', 'lanes',
\* 'turnover'].
LegacyPairs ==
    {{Tag("lanes"), List(<<"lanes", "opponents", "turnover">>)},
     {Tag("opponents"), List(<<"opponents", "lanes", "turnover">>)}}

C11_LegacyTagsAsDocumented ==
    (/\ Returned
     /\ remembered.set
     /\ {remembered.input.prioritize, options.prioritize} \in LegacyPairs)
        => returned = remembered.grid

\* C12: a call without prioritize returns the same grid as the call with
\* prioritize: ['lanes', 'opponents', 'turnover'] on the same racers and
\* options.
ReadmeDefaultPair == {Omitted, List(<<"lanes", "opponents", "turnover">>)}

C12_DefaultAsDocumented ==
    (/\ Returned
     /\ remembered.set
     /\ {remembered.input.prioritize, options.prioritize} = ReadmeDefaultPair)
        => returned = remembered.grid

EmptyLanes(g, h) == {l \in DOMAIN g[h] : g[h][l] = Null}

\* C13: when there are at most numLanes racers, the schedule has
\* heatsPerRacer heats and every heat holds every racer exactly once and has
\* numLanes - racerCount empty slots.
C13_FewRacersFillEveryHeat ==
    (Returned /\ racerCount <= numLanes) =>
        /\ numHeats = heatsPerRacer
        /\ DOMAIN returned = 0 .. heatsPerRacer - 1
        /\ \A h \in DOMAIN returned :
              /\ \A r \in DOMAIN racers :
                     Cardinality(LanesHolding(returned, h, racers[r])) = 1
              /\ Cardinality(EmptyLanes(returned, h)) = numLanes - racerCount

\* 1 racer, 4 lanes, 3 heats: 3 heats and 9 empty slots
C13_Witness ==
    /\ Returned
    /\ racerCount = 1
    /\ numLanes = 4
    /\ heatsPerRacer = 3
    /\ Cardinality(DOMAIN returned) = 3
    /\ NullCount(returned) = 9

\* C14: with one lane the schedule has racerCount * heatsPerRacer heats, each
\* with its one slot filled, no BYE is placed, and each racer appears
\* heatsPerRacer times.
C14_SingleLane ==
    (Returned /\ numLanes = 1) =>
        /\ DOMAIN returned = 0 .. racerCount * heatsPerRacer - 1
        /\ \A h \in DOMAIN returned : returned[h][0] /= Null
        /\ byeSlots = {}
        /\ NullCount(returned) = 0
        /\ \A r \in DOMAIN racers : Appearances(returned, racers[r]) = heatsPerRacer

\* 4 racers, 1 lane, 2 heats each: 8 heats
C14_Witness ==
    /\ Returned
    /\ numLanes = 1
    /\ racerCount = 4
    /\ heatsPerRacer = 2
    /\ Cardinality(DOMAIN returned) = 8

\* C15: the first BYE placed is lane 0 of the last heat; when exactly one BYE
\* is needed, lane 0 of the last heat is the only empty slot of the returned
\* grid.
C15_FirstByeLastHeatLaneZero ==
    /\ byesPlaced >= 1 => <<numHeats - 1, laneLeft>> \in byeSlots
    /\ byesPlaced = 1 => byeSlots = {<<numHeats - 1, laneLeft>>}
    /\ (Returned /\ necessaryByes = 1) =>
           Cells(returned) \ FilledCells(returned) = {<<numHeats - 1, laneLeft>>}

\* 5 racers, 4 lanes, 3 heats each: 4 heats and one BYE
C15_Witness ==
    /\ Returned
    /\ racerCount = 5
    /\ numLanes = 4
    /\ heatsPerRacer = 3
    /\ Cardinality(DOMAIN returned) = 4
    /\ necessaryByes = 1
    /\ returned[3][0] = Null

----------------------------------------------------------------------------
(* Two calls on the same racers, numLanes and heatsPerRacer compared: the
   measures of the tests, analyzeTurnover and analyzeOpponents *)

\* the two calls were made with priority settings p and q
Compared(p, q) ==
    /\ Returned
    /\ remembered.set
    /\ {remembered.input.prioritize, options.prioritize} = {p, q}

\* of the two calls compared, the grid of the one made with p
GridUnder(p) == IF options.prioritize = p THEN returned ELSE remembered.grid

OnInput(n, lanes, heats) == racerCount = n /\ numLanes = lanes /\ heatsPerRacer = heats

RacersIn(g, h) == {g[h][l] : l \in DOMAIN g[h]} \ {Null}

\* slots of heat h whose racer was in heat h - 1
TurnoverIn(g, h) ==
    Cardinality({l \in DOMAIN g[h] : g[h][l] /= Null /\ g[h][l] \in RacersIn(g, h - 1)})

RECURSIVE TurnoverUpTo(_, _)
TurnoverUpTo(g, h) == IF h < 1 THEN 0 ELSE TurnoverUpTo(g, h - 1) + TurnoverIn(g, h)

totalTurnover(g) == TurnoverUpTo(g, Cardinality(DOMAIN g) - 1)

OpponentsOf(g, id) == UNION {RacersIn(g, h) \ {id} : h \in {k \in DOMAIN g : id \in RacersIn(g, k)}}

minUniqueOpponents(g) ==
    LET uniqueCounts == {Cardinality(OpponentsOf(g, racers[r])) : r \in DOMAIN racers}
    IN CHOOSE m \in uniqueCounts : \A c \in uniqueCounts : m <= c

\* C16: with 24 racers, 4 lanes and 4 heats per racer, the total turnover of
\* the grid returned under ['turnover', 'lanes', 'opponents'] is at most the
\* total turnover of the grid returned under ['lanes', 'opponents',
\* 'turnover'].
C16_TurnoverFirstOnScenarioD ==
    (Compared(TurnoverFirst, LanesOpponentsTurnover) /\ OnInput(24, 4, 4)) =>
        totalTurnover(GridUnder(TurnoverFirst))
            <= totalTurnover(GridUnder(LanesOpponentsTurnover))

\* both grids of the 24-racer comparison returned, the turnover-first one last
C16_Witness ==
    /\ Compared(TurnoverFirst, LanesOpponentsTurnover)
    /\ OnInput(24, 4, 4)
    /\ options.prioritize = TurnoverFirst
    /\ Cardinality(DOMAIN returned) = 24
    /\ Cardinality(DOMAIN remembered.grid) = 24

\* C17: on every valid input the total turnover under ['turnover', 'lanes',
\* 'opponents'] is at most the total turnover under ['lanes', 'turnover',
\* 'opponents'].
C17_TurnoverFirstNeverWorse ==
    Compared(TurnoverFirst, LanesFirst) =>
        totalTurnover(GridUnder(TurnoverFirst)) <= totalTurnover(GridUnder(LanesFirst))

\* C17 (amended): on 32 racers, 4 lanes, 4 heats per racer, the total turnover
\* under ['turnover', 'lanes', 'opponents'] is at most the total turnover
\* under ['lanes', 'turnover', 'opponents'].
C17_TurnoverFirstOnThirtyTwo ==
    (Compared(TurnoverFirst, LanesFirst) /\ OnInput(32, 4, 4)) =>
        totalTurnover(GridUnder(TurnoverFirst)) <= totalTurnover(GridUnder(LanesFirst))

\* both grids of the 32-racer comparison returned, the lanes-first one last
C17_Witness ==
    /\ Compared(TurnoverFirst, LanesFirst)
    /\ OnInput(32, 4, 4)
    /\ options.prioritize = LanesFirst
    /\ Cardinality(DOMAIN returned) = 32
    /\ Cardinality(DOMAIN remembered.grid) = 32

\* C18: on every valid input the least number of distinct opponents a racer
\* meets under prioritize: 'opponents' is at least that number under
\* prioritize: 'lanes'.
C18_OpponentsNeverWorse ==
    Compared(Tag("opponents"), Tag("lanes")) =>
        minUniqueOpponents(GridUnder(Tag("opponents")))
            >= minUniqueOpponents(GridUnder(Tag("lanes")))

\* C18 (amended): on 24 racers, 6 lanes, 6 heats per racer, the least number
\* of distinct opponents a racer meets under prioritize: 'opponents' is at
\* least that number under prioritize: 'lanes'.
C18_OpponentsOnTwentyFour ==
    (Compared(Tag("opponents"), Tag("lanes")) /\ OnInput(24, 6, 6)) =>
        minUniqueOpponents(GridUnder(Tag("opponents")))
            >= minUniqueOpponents(GridUnder(Tag("lanes")))

\* both grids of the 24-racer, 6-lane comparison returned, and they differ in
\* the measure
C18_Witness ==
    /\ Compared(Tag("opponents"), Tag("lanes"))
    /\ OnInput(24, 6, 6)
    /\ minUniqueOpponents(GridUnder(Tag("opponents")))
           > minUniqueOpponents(GridUnder(Tag("lanes")))

----------------------------------------------------------------------------
(* The heats and lanes of one returned grid *)

NoSingleRacerHeat(g) == \A h \in DOMAIN g : Cardinality(RacersIn(g, h)) >= 2

OddOnTwoLanes == numLanes = 2 /\ (racerCount * heatsPerRacer) % 2 = 1

LanesOf(g, racer) == {c[2] : c \in {d \in Cells(g) : g[d[1]][d[2]] = racer}}

EnoughLanes(g) ==
    \A r \in DOMAIN racers :
        Cardinality(LanesOf(g, racers[r])) >= Max(1, heatsPerRacer - 2)

----------------------------------------------------------------------------
(* The placement step *)

\* the step writes a racer into the lane laneOrder[lanePos] of the heat
Places ==
    pc = "lane" /\ pc' = "lane" /\ Len(racersInThisHeat') = Len(racersInThisHeat) + 1

LaneFilled == laneOrder[lanePos]

Chosen == racersInThisHeat'[Len(racersInThisHeat')]

Eligible == {r \in DOMAIN racers : heatsRemaining[r] > 0 /\ r \notin Range(racersInThisHeat)}

\* C21: no step of a call changes racers, the step that fills a lane writes
\* racers[i] for the index i it selected and no other slot, and every filled
\* slot of the grid, while it is built and when it is returned, holds an
\* element of racers.
SlotsHoldRacers ==
    /\ \A c \in FilledCells(result) : result[c[1]][c[2]] \in Range(racers)
    /\ Returned => \A c \in FilledCells(returned) : returned[c[1]][c[2]] \in Range(racers)

RacersUntouched == racers' = racers /\ racersIsArray' = racersIsArray

WritesSelected ==
    Places =>
        /\ result'[heat][LaneFilled] = racers[Chosen]
        /\ \A c \in Cells(result) :
               c /= <<heat, LaneFilled>> => result'[c[1]][c[2]] = result[c[1]][c[2]]

C21_RacersReadOnlyAndPlacedAsGiven ==
    []SlotsHoldRacers /\ [][RacersUntouched /\ WritesSelected]_vars

\* a returned grid that holds the last racer of the list and an empty slot
C21_Witness ==
    /\ Returned
    /\ racerCount >= 3
    /\ \E c \in FilledCells(returned) : returned[c[1]][c[2]] = racers[racerCount - 1]
    /\ NullCount(returned) >= 1

\* the score of the claim, in tenths: 10 times the weighted sum of the three
\* terms, plus the remaining heats
NeverUsed(r, lane) ==
    \A h \in 0 .. heat - 1 : result[h][lane] /= racers[r]

MetBefore(r, other) ==
    \E h \in 0 .. heat - 1 : {racers[r], racers[other]} \subseteq RacersIn(result, h)

InPreviousHeat(r) == heat >= 1 /\ racers[r] \in RacersIn(result, heat - 1)

ClaimedSum(r, lane) ==
    LET placed == Range(racersInThisHeat)
        new == Cardinality({o \in placed : ~MetBefore(r, o)})
        repeat == Cardinality({o \in placed : MetBefore(r, o)})
    IN weights["lanes"] * (IF NeverUsed(r, lane) THEN 10 ELSE 0)
       + weights["opponents"] * (2 * new - 5 * repeat)
       + weights["turnover"] * (IF InPreviousHeat(r) THEN -1 ELSE 1)

ClaimedScore(r, lane) == 10 * ClaimedSum(r, lane) + heatsRemaining[r]

\* C22: the racer written to a lane is eligible, no eligible racer has a
\* higher score for that lane, and no eligible racer with the same score has
\* a lower index.
C22_PlacementIsArgmax ==
    [][Places =>
          /\ Chosen \in Eligible
          /\ \A r \in Eligible :
                \/ ClaimedScore(r, LaneFilled) < ClaimedScore(Chosen, LaneFilled)
                \/ /\ ClaimedScore(r, LaneFilled) = ClaimedScore(Chosen, LaneFilled)
                   /\ Chosen <= r]_vars

\* a racer placed, in a heat after the first, ahead of an eligible racer of
\* lower index
C22_Witness ==
    /\ pc = "lane"
    /\ heat >= 1
    /\ Len(racersInThisHeat) >= 1
    /\ \E r \in Eligible : r < racersInThisHeat[Len(racersInThisHeat)]

----------------------------------------------------------------------------
(* The BYE placement loop *)

ByesIn(h) == Cardinality({c \in byeSlots : c[1] = h})

ByeLanesOf(h) == {c[2] : c \in {d \in byeSlots : d[1] = h}}

ByesPlaced == pc \in {"heat", "lane", "done"}

\* C23: necessaryByes is never negative, every iteration of the BYE loop
\* assigns one coordinate that was not a BYE before, the loop ends, and it
\* ends with necessaryByes distinct BYE coordinates.
ByesCounted ==
    /\ necessaryByes >= 0
    /\ lastAssigned
    /\ byesPlaced <= necessaryByes
    /\ Cardinality(byeSlots) = byesPlaced
    /\ ByesPlaced => Cardinality(byeSlots) = necessaryByes

IterationAddsOne ==
    (pc = "byes" /\ pc' = "byes") =>
        /\ byesPlaced' = byesPlaced + 1
        /\ byeSlots \subseteq byeSlots'
        /\ Cardinality(byeSlots' \ byeSlots) = 1

C23_ByePlacementTerminates ==
    /\ []ByesCounted
    /\ [][IterationAddsOne]_vars
    /\ (pc = "byes") ~> (pc = "heat")

\* the loop has ended after going round the heats more than once
C23_Witness ==
    /\ pc = "heat"
    /\ heat = 0
    /\ necessaryByes > numHeats
    /\ numHeats >= 2
    /\ Cardinality(byeSlots) = necessaryByes

\* C24: after BYE placement, for any two heats i < j, heat i has at most as
\* many BYEs as heat j, and at most one fewer.
C24_ByesLateAndLevel ==
    ByesPlaced =>
        \A i, j \in 0 .. numHeats - 1 :
            i < j => ByesIn(i) <= ByesIn(j) /\ ByesIn(j) <= ByesIn(i) + 1

\* the last heat has two BYEs, the first heat one
C24_Witness ==
    /\ ByesPlaced
    /\ numHeats >= 2
    /\ ByesIn(numHeats - 1) = 2
    /\ ByesIn(0) = 1

\* lane number i, from 1, of the order 0, numLanes - 1, 1, numLanes - 2, ...
OutermostFirst(i) == IF i % 2 = 1 THEN (i - 1) \div 2 ELSE numLanes - (i \div 2)

\* C25: a heat with one BYE has it in lane 0 or in the last lane; a heat with
\* k >= 2 BYEs has them in the first k lanes of the order 0, numLanes - 1, 1,
\* numLanes - 2, ...
C25_ByesOnOuterLanes ==
    \A h \in 0 .. numHeats - 1 :
        LET k == ByesIn(h)
        IN /\ k = 1 => ByeLanesOf(h) \subseteq {0, numLanes - 1}
           /\ k >= 2 => ByeLanesOf(h) = {OutermostFirst(i) : i \in 1 .. k}

\* on 4 lanes, a heat with three BYEs, one of them on the inner lane 1
C25_Witness ==
    /\ ByesPlaced
    /\ numLanes = 4
    /\ numHeats >= 2
    /\ \E h \in 0 .. numHeats - 1 : ByesIn(h) = 3 /\ ByeLanesOf(h) = {0, 1, 3}

ByesInLane(lane) == Cardinality({c \in byeSlots : c[2] = lane})

\* C26: with 2 or more lanes, in every state of the BYE loop the number of
\* BYEs in lane 0 and the number of BYEs in the last lane differ by at most 1.
C26_EdgesBalanced ==
    numLanes >= 2 =>
        /\ leftByes = ByesInLane(0)
        /\ rightByes = ByesInLane(numLanes - 1)
        /\ ByesInLane(0) - ByesInLane(numLanes - 1) \in {-1, 0, 1}

\* during the loop, two BYEs in lane 0 and one in the last lane
C26_Witness ==
    /\ pc = "byes"
    /\ numLanes >= 3
    /\ ByesInLane(0) = 2
    /\ ByesInLane(numLanes - 1) = 1
    /\ byesPlaced < necessaryByes

TiedEdges == leftByes = rightByes

C28_NoHeatAllByes ==
    /\ ByesPlaced =>
          /\ racerCount >= numLanes => necessaryByes < numLanes
          /\ \A h \in 0 .. numHeats - 1 :
                /\ ByesIn(h) < numLanes
                /\ Len(availableLanesPerHeat[h]) >= 1
                /\ racerCount < numLanes => ByesIn(h) = numLanes - racerCount
    /\ Returned => \A h \in DOMAIN returned : RacersIn(returned, h) /= {}

\* a returned grid whose heats each have one lane that is not a BYE
C28_Witness ==
    /\ Returned
    /\ racerCount = 1
    /\ numLanes >= 3
    /\ heatsPerRacer >= 2
    /\ \A h \in DOMAIN returned : ByesIn(h) = numLanes - 1

----------------------------------------------------------------------------
(* The fill order of a heat *)

FreeLanes(t) == {l \in 0 .. numLanes - 1 : <<t, l>> \notin byeSlots}

\* the non-BYE lane of heat t with k non-BYE lanes below it: a[k]
NthFree(t, k) == CHOOSE l \in FreeLanes(t) : Cardinality({x \in FreeLanes(t) : x < l}) = k

StartsHeat == pc = "heat" /\ pc' = "lane"

\* laneOrder of heat t is a[t mod m], a[(t mod m) + 1], ..., wrapping around
FilledInCyclicOrder ==
    StartsHeat =>
        LET m == Cardinality(FreeLanes(heat))
        IN /\ Len(laneOrder') = m
           /\ \A k \in 0 .. m - 1 : laneOrder'[k + 1] = NthFree(heat, (heat + k) % m)

\* the k-th racer placed in a heat goes to the k-th lane of laneOrder
OneLaneAtATime ==
    (pc = "lane" /\ pc' = "lane") =>
        /\ laneOrder' = laneOrder
        /\ Places =>
              /\ LaneFilled = laneOrder[Len(racersInThisHeat) + 1]
              /\ result[heat][LaneFilled] = Null
              /\ result'[heat][LaneFilled] /= Null

\* C29: the non-BYE lanes a[0..m-1] of heat t are filled in the order
\* a[t mod m], a[(t mod m) + 1], ..., wrapping around, one lane at a time, and
\* the first lane filled differs from the first lane filled in the heat
\* before.
C29_RotatedFillOrder ==
    [][/\ FilledInCyclicOrder
       /\ OneLaneAtATime
       /\ (StartsHeat /\ heat >= 1) => laneOrder'[1] /= laneOrder[1]]_vars

\* C29 (amended): the non-BYE lanes a[0..m-1] of heat t are filled in the
\* order a[t mod m], a[(t mod m) + 1], ..., wrapping around, one lane at a
\* time; the first lane filled differs from the first lane filled in the heat
\* before when the two heats have the same non-BYE lanes and at least two of
\* them.
C29_RotatedFillOrderOnSameLanes ==
    [][/\ FilledInCyclicOrder
       /\ OneLaneAtATime
       /\ (/\ StartsHeat
           /\ heat >= 1
           /\ FreeLanes(heat) = FreeLanes(heat - 1)
           /\ Cardinality(FreeLanes(heat)) >= 2)
             => laneOrder'[1] /= laneOrder[1]]_vars

\* a heat after the first, with a BYE, whose fill starts on its highest lane
\* and goes on with its lowest
C29_Witness ==
    /\ pc = "lane"
    /\ heat >= 1
    /\ ByesIn(heat) >= 1
    /\ Len(laneOrder) >= 3
    /\ Len(racersInThisHeat) >= 2
    /\ \A l \in FreeLanes(heat) : l <= laneOrder[1] /\ laneOrder[2] <= l

\* C30: the racer placed in a lane never has a lower weighted sum of the
\* three criterion terms than another eligible racer, whatever heatsPerRacer
\* and the weights.
C30_NudgeNeverOverturns ==
    [][Places =>
          \A r \in Eligible :
              ClaimedSum(r, LaneFilled) <= ClaimedSum(Chosen, LaneFilled)]_vars

\* with 12 heats per racer and all weights 1: a lane about to be filled for
\* which one eligible racer has the lower weighted sum and more heats
\* remaining than another
C30_Witness ==
    /\ pc = "lane"
    /\ lanePos <= Len(laneOrder)
    /\ heatsPerRacer >= 12
    /\ \A c \in Criteria : weights[c] = 1
    /\ \E r1, r2 \in Eligible :
          /\ ClaimedSum(r1, LaneFilled) < ClaimedSum(r2, LaneFilled)
          /\ heatsRemaining[r1] > heatsRemaining[r2]

----------------------------------------------------------------------------
(* The state kept while the heats are filled *)

\* the heat loop is running: between two heats, or inside one
Filling == pc \in {"heat", "lane"}

\* C31: after every placement, heatsRemaining[r] is heatsPerRacer minus the
\* number of slots that hold racer r, it is never negative, and lanesUsed[r]
\* is the set of lanes in which r has been placed.
C31_PerRacerStateExact ==
    (Filling \/ Returned) =>
        \A r \in DOMAIN racers :
            /\ heatsRemaining[r] = heatsPerRacer - Appearances(result, racers[r])
            /\ heatsRemaining[r] >= 0
            /\ lanesUsed[r] = LanesOf(result, racers[r])

\* inside a heat: a racer with no heat left who has been in two lanes or
\* more, one of them twice, and a racer who has been placed and has heats left
C31_Witness ==
    /\ pc = "lane"
    /\ \E r \in DOMAIN racers :
          /\ heatsRemaining[r] = 0
          /\ Cardinality(lanesUsed[r]) >= 2
          /\ Cardinality(lanesUsed[r]) < heatsPerRacer
    /\ \E r \in DOMAIN racers :
          heatsRemaining[r] > 0 /\ heatsRemaining[r] < heatsPerRacer

\* the pairs of racers, lower index first, that are together in a heat before
\* the current one
SharedBefore ==
    {p \in (DOMAIN racers) \X (DOMAIN racers) : p[1] < p[2] /\ MetBefore(p[1], p[2])}

HeatComplete == pc = "lane" /\ lanePos > Len(laneOrder)

LedgerOfFinishedHeats == Filling => racedTogether = SharedBefore

LedgerGrowsAtHeatEnd ==
    /\ racedTogether \subseteq racedTogether'
    /\ racedTogether' /= racedTogether => (HeatComplete /\ pc' = "heat")

\* C32: the pairing ledger never loses a pair and changes only on the step
\* that ends a heat; while heat t is being filled a pair is in the ledger
\* exactly when both racers are in one heat with index below t, so a pair
\* formed inside heat t is not yet in it.
C32_LedgerOfFinishedHeats ==
    []LedgerOfFinishedHeats /\ [][LedgerGrowsAtHeatEnd]_vars

\* a heat after the first that holds two racers who have not met before,
\* while the ledger holds other pairs
C32_Witness ==
    /\ pc = "lane"
    /\ heat >= 1
    /\ racedTogether /= {}
    /\ \E i, j \in DOMAIN racersInThisHeat :
          /\ i < j
          /\ pairKey(racersInThisHeat[i], racersInThisHeat[j]) \notin racedTogether
    /\ \E i \in DOMAIN racersInThisHeat : \E r \in Eligible :
          pairKey(racersInThisHeat[i], r) \in racedTogether

\* the indices of the racers in heat t of the grid
PlacedInHeat(t) == {r \in DOMAIN racers : racers[r] \in RacersIn(result, t)}

\* C33: while heat t is being filled, previousHeatRacers is the set of the
\* racers placed in heat t-1, so a racer last placed in an older heat is not
\* in it; for heat 0 it is empty and the turnover term of every racer is +1.
C33_PreviousHeatExact ==
    Filling =>
        /\ previousHeatRacers = (IF heat = 0 THEN {} ELSE PlacedInHeat(heat - 1))
        /\ heat = 0 => \A r \in DOMAIN racers : TurnoverScore(r) = 1

\* the third heat or a later one being filled, with a racer of the heat
\* before the previous one who is not in the previous heat
C33_Witness ==
    /\ pc = "lane"
    /\ heat >= 2
    /\ previousHeatRacers /= {}
    /\ PlacedInHeat(heat - 2) \ PlacedInHeat(heat - 1) /= {}
    /\ \E r \in Eligible : TurnoverScore(r) = -1
    /\ \E r \in Eligible : TurnoverScore(r) = 1

LaterHeatsEmpty ==
    Filling => \A t \in DOMAIN result : t > heat => RacersIn(result, t) = {}

HeatOrder == (Filling /\ Filling') => heat' \in {heat, heat + 1}

WrittenOnce ==
    /\ Places => result[heat][LaneFilled] = Null
    /\ \A c \in FilledCells(result) :
           c \in Cells(result') /\ result'[c[1]][c[2]] = result[c[1]][c[2]]

\* C34: the heats are filled in the order of their indices: while heat t is
\* being filled no heat after t holds a racer, and the heat index never goes
\* back; a racer is written to an empty slot only, and a slot that holds a
\* racer keeps that racer in every later step.
C34_HeatOrderAndWrittenOnce ==
    []LaterHeatsEmpty /\ [][HeatOrder /\ WrittenOnce]_vars

\* a heat that is neither the first nor the last, with a racer in it
C34_Witness ==
    /\ pc = "lane"
    /\ heat >= 1
    /\ heat + 1 < numHeats
    /\ RacersIn(result, heat) /= {}
    /\ AvailableLanes(heat + 1) /= <<>>

\* heat 0 of grid g holds racers[0..k-1] in its k non-BYE lanes, ascending
FirstRacersInOrder(g) ==
    LET k == Cardinality(FreeLanes(0))
    IN /\ k <= racerCount
       /\ \A i \in 0 .. k - 1 : g[0][NthFree(0, i)] = racers[i]
       /\ \A l \in 0 .. numLanes - 1 : l \notin FreeLanes(0) => g[0][l] = Null

\* C35: for every priority setting, once heat 0 is filled it holds the first
\* k racers of the list, racers[i] in the non-BYE lane of heat 0 with i
\* non-BYE lanes below it, where k is the number of non-BYE lanes of heat 0;
\* so does heat 0 of the returned grid.
C35_FirstHeatInListOrder ==
    /\ (Filling /\ heat >= 1) => FirstRacersInOrder(result)
    /\ Returned => FirstRacersInOrder(returned)

\* a returned grid whose heat 0 has a BYE and fewer lanes than there are
\* racers, under a priority setting that puts opponents first
C35_Witness ==
    /\ Returned
    /\ weights["opponents"] = 1000
    /\ ByesIn(0) >= 1
    /\ Cardinality(FreeLanes(0)) >= 2
    /\ Cardinality(FreeLanes(0)) < racerCount

\* C36: with one lane, for every priority setting, heat i of the returned
\* grid holds racers[i mod racerCount]; with two racers or more no racer is in
\* two consecutive heats.
C36_SingleLaneRoundRobin ==
    (Returned /\ numLanes = 1) =>
        /\ \A i \in DOMAIN returned : returned[i][0] = racers[i % racerCount]
        /\ racerCount >= 2 =>
              \A i \in DOMAIN returned : i >= 1 => returned[i][0] /= returned[i - 1][0]

\* three racers or more on one lane going round twice or more, with turnover
\* at the lowest weight
C36_Witness ==
    /\ Returned
    /\ numLanes = 1
    /\ racerCount >= 3
    /\ heatsPerRacer >= 2
    /\ weights["turnover"] = 1
    /\ weights["lanes"] = 1000

----------------------------------------------------------------------------
(* Priority lists that repeat a criterion *)

\* the 0-based position of the last occurrence of criterion c in list l
LastPosition(l, c) ==
    (CHOOSE i \in DOMAIN l : l[i] = c /\ \A j \in DOMAIN l : l[j] = c => j <= i) - 1

WeightAtPosition(k) == CASE k = 0 -> 1000 [] k = 1 -> 100 [] k = 2 -> 10 [] OTHER -> 1

RepeatedExample == <<"lanes", "opponents", "turnover", "lanes">>

\* C37: for an explicit list in which a criterion occurs more than once, or
\* of more than three entries, the weight of a listed criterion is the one of
\* the position of its last occurrence, 1000, 100, 10, and 1 from position 3
\* on; an unlisted criterion has weight 1; ['lanes', 'opponents', 'turnover',
\* 'lanes'] gives lanes 1, opponents 100, turnover 10.
C37_LastOccurrenceDecides ==
    (pc /= "resolve" /\ ExplicitList /\ Repeats(options.prioritize.list)) =>
        LET list == options.prioritize.list
        IN /\ \A c \in Criteria :
                  weights[c] = IF c \in Range(list)
                               THEN WeightAtPosition(LastPosition(list, c))
                               ELSE 1
           /\ list = RepeatedExample =>
                  /\ weights["lanes"] = 1
                  /\ weights["opponents"] = 100
                  /\ weights["turnover"] = 10

\* the weights resolved from the list of the example
C37_Witness ==
    /\ pc = "validate"
    /\ ExplicitList
    /\ options.prioritize.list = RepeatedExample
    /\ weights["lanes"] = 1

----------------------------------------------------------------------------
(* The round-major implementation *)

\* C39: the round-major implementation, which sizes the grid with
\* ceil(racerCount * heatsPerRacer / numLanes) heats, never has a racer in two
\* lanes of one heat, neither in the grid it builds nor in the grid it
\* returns, whatever the numbers of racers and lanes.
C39_RoundMajorNoDuplicate ==
    pc \in {"phase2", "done"} =>
        /\ numHeats = CeilDiv(racerCount * heatsPerRacer, numLanes)
        /\ \A t \in DOMAIN result : \A r \in DOMAIN racers :
               Cardinality(LanesHolding(result, t, racers[r])) <= 1
        /\ pc = "done" => returned = result

----------------------------------------------------------------------------
(* The site front end *)

\* schedule() throws on n racers and these options: index.ts, lines 86-98
Throws(n, opts) ==
    \/ n = 0
    \/ ~IsInteger(opts.numLanes) \/ LessThanOne(opts.numLanes)
    \/ ~IsInteger(opts.heatsPerRacer) \/ LessThanOne(opts.heatsPerRacer)

\* the subgroups among the first k of the Map on which schedule() does not
\* throw, in the order of the Map
RECURSIVE ScheduledAmong(_)
ScheduledAmong(k) ==
    IF k = 0 THEN <<>>
    ELSE IF Throws(Len(groups[k].racers), OptionsOf(formData))
         THEN ScheduledAmong(k - 1)
    ELSE Append(ScheduledAmong(k - 1), groups[k].subgroup)

SubgroupsOf(list) == [i \in DOMAIN list |-> list[i].subgroup]

\* the racers of the subgroup of a schedule
RacersOfSchedule(s) ==
    groups[CHOOSE k \in DOMAIN groups : groups[k].subgroup = s.subgroup].racers

Generated == sitePc = "shown" /\ Len(groups) > 0

\* C38: generateSchedules calls schedule() once for every subgroup, with the
\* options of the form; the schedules it collects are those of the subgroups
\* whose call did not throw, in the order of the Map, each one the grid of its
\* own racers alone; handleSubmit shows the failure message, and no table,
\* exactly when no subgroup was scheduled, and the schedules otherwise.
C38_SubgroupsScheduledIndependently ==
    /\ sitePc \in {"generate", "call"} =>
           SubgroupsOf(schedules) = ScheduledAmong(groupPos - 1)
    /\ sitePc = "call" =>
           /\ options = OptionsOf(formData)
           /\ racerCount = Len(groups[groupPos].racers)
    /\ \A i \in DOMAIN schedules :
           /\ Cardinality(FilledCells(schedules[i].heats)) =
                  Len(RacersOfSchedule(schedules[i])) * heatsPerRacer
           /\ \A j \in DOMAIN schedules :
                  Len(RacersOfSchedule(schedules[i])) = Len(RacersOfSchedule(schedules[j]))
                      => schedules[i].heats = schedules[j].heats
    /\ Generated =>
           /\ SubgroupsOf(schedules) = ScheduledAmong(Len(groups))
           /\ output.tables = schedules
           /\ output.error = (IF Len(schedules) = 0 THEN FailedMessage ELSE "")
    /\ output.error = FailedMessage =>
           Generated /\ ScheduledAmong(Len(groups)) = <<>>

\* two subgroups, the call threw for both and the failure message is shown
C38_Witness ==
    /\ sitePc = "shown"
    /\ Len(groups) = 2
    /\ error /= ""
    /\ schedules = <<>>
    /\ output = [error |-> FailedMessage, tables |-> <<>>]

====
